---- MODULE Spec2Model ----
(***************************************************************************)
(* Model of crates/engine/tree/src/engine.rs: the EngineHandler poll loop   *)
(* that multiplexes the request handler, the incoming request stream and    *)
(* the block downloader, and the EngineApiRequestHandler state machine.     *)
(*                                                                         *)
(* EngineHandler<T, D> is generic over its request handler T.  Spec runs    *)
(* the loop against an arbitrary T (every poll result the trait allows);    *)
(* SpecApi runs it against EngineApiRequestHandler.                         *)
(***************************************************************************)
EXTENDS Naturals, Sequences, FiniteSets, TLC

\* ---------------------------------------------------------------- bounds
MaxReqs == 3        \* external requests that arrive on the stream
MaxDownloads == 2   \* download requests the downloader holds at a time

Hashes == {1, 2}

\* ------------------------------------------------------------ vocabulary
\* DownloadRequest (engine.rs:229-234)
Blocks(hs) == [kind |-> "Blocks", hashes |-> hs, start |-> 0, count |-> 0]
Range(h, n) == [kind |-> "Range", hashes |-> <<>>, start |-> h, count |-> n]
NoDownload == [kind |-> "None", hashes |-> <<>>, start |-> 0, count |-> 0]
DownloadRequest == {Blocks(<<2, 1>>), Range(2, 2)}

\* the blocks a completed download yields, in the downloader's order
BlocksOf(req) ==
    IF req.kind = "Blocks" THEN req.hashes
    ELSE [i \in 1..req.count |-> req.start + (i - 1)]

\* T::Event, opaque to the EngineHandler
NoEvent == [kind |-> "None", id |-> 0, of |-> "None"]
OpaqueEvents == {[kind |-> "E", id |-> 1, of |-> "Opaque"]}

\* RequestHandlerEvent<T> (engine.rs:222-227) and Poll::Pending of
\* EngineRequestHandler::poll (engine.rs:121)
RIdle == [type |-> "Idle", target |-> 0, ev |-> NoEvent, req |-> NoDownload]
RPending == [type |-> "Pending", target |-> 0, ev |-> NoEvent, req |-> NoDownload]
RPipeline(t) == [type |-> "Pipeline", target |-> t, ev |-> NoEvent, req |-> NoDownload]
REvent(e) == [type |-> "Event", target |-> 0, ev |-> e, req |-> NoDownload]
RDownload(r) == [type |-> "Download", target |-> 0, ev |-> NoEvent, req |-> r]
RNone == [type |-> "None", target |-> 0, ev |-> NoEvent, req |-> NoDownload]

\* T::Request
NoRequest == [kind |-> "None", id |-> 0]
NewPayload(i) == [kind |-> "NewPayload", id |-> i]
ForkchoiceUpdated(i) == [kind |-> "ForkchoiceUpdated", id |-> i]

\* FromOrchestrator notifications (chain.rs, named as in the data model)
Notifications == {"PipelineSync", "Live"}

\* FromEngine<Req> (engine.rs:209-214)
FromEngine_Event(n) == [type |-> "Event", note |-> n, req |-> NoRequest, blocks |-> <<>>]
FromEngine_Request(r) == [type |-> "Request", note |-> "", req |-> r, blocks |-> <<>>]
FromEngine_DownloadedBlocks(b) == [type |-> "DownloadedBlocks", note |-> "", req |-> NoRequest, blocks |-> b]

NoInput == [type |-> "None", note |-> "", req |-> NoRequest, blocks |-> <<>>]

\* Poll<HandlerEvent<T::Event>> returned by EngineHandler::poll
NoRet == [type |-> "None", target |-> 0, ev |-> NoEvent]
PollPending == [type |-> "Pending", target |-> 0, ev |-> NoEvent]
HandlerEvent_Pipeline(t) == [type |-> "Pipeline", target |-> t, ev |-> NoEvent]
HandlerEvent_Event(e) == [type |-> "Event", target |-> 0, ev |-> e]

\* ----------------------------------------------------------------- state
VARIABLES
    pc,          \* position of EngineHandler::poll: "out", "handler", "incoming", "downloader"
    ret,         \* value EngineHandler::poll returned in the latest step, NoRet if it did not return
    incoming,    \* items ready on incoming_requests, oldest first
    closed,      \* the underlying stream has ended
    fused,       \* Fuse has seen the end of the stream
    arrived,     \* number of requests that have arrived on the stream
    dlInflight,  \* downloader: requests accepted and not completed
    dlReady,     \* downloader: completed batches, oldest first
    lastAction,  \* DownloadAction::Download the downloader received in the latest step, NoDownload if none
    lastIn,      \* event the latest step handed to handler.on_event, NoInput if none
    lastEv,      \* latest result of handler.poll in the current poll call
    emitsInCall, \* download requests handler.poll returned during the current poll call
    lastNote     \* notification the caller passed to on_event in the latest step, "" if none

engineVars == <<pc, ret, incoming, closed, fused, arrived, dlInflight, dlReady,
                lastAction, lastIn, lastEv, emitsInCall, lastNote>>

InitEngine ==
    /\ pc = "out"
    /\ ret = NoRet
    /\ incoming = <<>>
    /\ closed = FALSE
    /\ fused = FALSE
    /\ arrived = 0
    /\ dlInflight = <<>>
    /\ dlReady = <<>>
    /\ lastAction = NoDownload
    /\ lastIn = NoInput
    /\ lastEv = RNone
    /\ emitsInCall = 0
    /\ lastNote = ""

RemoveAt(s, i) == [j \in 1..(Len(s) - 1) |-> IF j < i THEN s[j] ELSE s[j + 1]]

\* a step outside EngineHandler::poll: no poll call is in progress
OutsidePoll ==
    /\ pc = "out"
    /\ pc' = "out"
    /\ ret' = NoRet
    /\ lastEv' = RNone
    /\ emitsInCall' = 0
    /\ lastAction' = NoDownload

\* ----------------------------------------------------------- environment
\* a request arrives on the incoming stream (between two poll calls:
\* polling is single-threaded and cooperative)
Arrive(r) ==
    /\ OutsidePoll
    /\ ~closed
    /\ arrived < MaxReqs
    /\ r.id = arrived + 1
    /\ incoming' = Append(incoming, r)
    /\ arrived' = arrived + 1
    /\ lastIn' = NoInput
    /\ UNCHANGED <<closed, fused, dlInflight, dlReady>>
    /\ lastNote' = ""

\* the incoming stream ends
CloseStream ==
    /\ OutsidePoll
    /\ ~closed
    /\ closed' = TRUE
    /\ lastIn' = NoInput
    /\ UNCHANGED <<incoming, fused, arrived, dlInflight, dlReady>>
    /\ lastNote' = ""

\* BlockDownloader::on_action(DownloadAction::Download(req))
Downloader_on_action(req) ==
    /\ dlInflight' = Append(dlInflight, req)
    /\ lastAction' = req

\* the downloader completes one of its requests
DownloadComplete(i) ==
    /\ OutsidePoll
    /\ i \in 1..Len(dlInflight)
    /\ dlReady' = Append(dlReady, BlocksOf(dlInflight[i]))
    /\ dlInflight' = RemoveAt(dlInflight, i)
    /\ lastIn' = NoInput
    /\ UNCHANGED <<incoming, closed, fused, arrived>>
    /\ lastNote' = ""

\* ---------------------------------------------------------- EngineHandler
\* EngineHandler::on_event that hands a waiting request over before the
\* notification
EngineHandler_on_event_RequestsFirst(n) ==
    /\ OutsidePoll
    /\ IF incoming # <<>> /\ ~fused
       THEN /\ lastIn' = FromEngine_Request(Head(incoming))
            /\ incoming' = Tail(incoming)
       ELSE /\ lastIn' = FromEngine_Event(n)
            /\ UNCHANGED incoming
    /\ UNCHANGED <<closed, fused, arrived, dlInflight, dlReady>>
    /\ lastNote' = n

\* EngineHandler::on_event that keeps the notification for the next poll call
EngineHandler_on_event_Deferred(n) ==
    /\ OutsidePoll
    /\ lastIn' = NoInput
    /\ UNCHANGED <<incoming, closed, fused, arrived, dlInflight, dlReady>>
    /\ lastNote' = n

\* EngineHandler::on_event: delegate the notification to the handler
EngineHandler_on_event(n) ==
    /\ OutsidePoll
    /\ lastIn' = FromEngine_Event(n)
    /\ UNCHANGED <<incoming, closed, fused, arrived, dlInflight, dlReady>>
    /\ lastNote' = n

\* the caller invokes EngineHandler::poll
PollStart ==
    /\ pc = "out"
    /\ pc' = "handler"
    /\ ret' = NoRet
    /\ lastEv' = RNone
    /\ lastIn' = NoInput
    /\ emitsInCall' = 0
    /\ lastAction' = NoDownload
    /\ UNCHANGED <<incoming, closed, fused, arrived, dlInflight, dlReady>>
    /\ lastNote' = ""

\* DrainHandler that clears the downloads in progress when it bubbles a
\* pipeline target
DrainHandler_PipelineClearsDownloads(r) ==
    /\ pc = "handler"
    /\ lastEv' = r
    /\ lastIn' = NoInput
    /\ CASE r.type \in {"Idle", "Pending"} ->
              /\ pc' = "incoming"
              /\ lastAction' = NoDownload
              /\ UNCHANGED <<ret, dlInflight, dlReady, emitsInCall>>
         [] r.type = "Pipeline" ->
              /\ pc' = "out"
              /\ ret' = HandlerEvent_Pipeline(r.target)
              /\ lastAction' = NoDownload
              /\ dlInflight' = <<>>
              /\ dlReady' = <<>>
              /\ UNCHANGED emitsInCall
         [] r.type = "Event" ->
              /\ pc' = "out"
              /\ ret' = HandlerEvent_Event(r.ev)
              /\ lastAction' = NoDownload
              /\ UNCHANGED <<dlInflight, dlReady, emitsInCall>>
         [] r.type = "Download" ->
              /\ Len(dlInflight) + Len(dlReady) < MaxDownloads
              /\ emitsInCall' = emitsInCall + 1
              /\ Downloader_on_action(r.req)
              /\ UNCHANGED <<pc, ret, dlReady>>
    /\ UNCHANGED <<incoming, closed, fused, arrived>>
    /\ lastNote' = ""

\* DrainHandler with the event branch falling through instead of returning
DrainHandler_EventNotReturned(r) ==
    /\ pc = "handler"
    /\ lastEv' = r
    /\ lastIn' = NoInput
    /\ CASE r.type \in {"Idle", "Pending", "Event"} ->
              /\ pc' = "incoming"
              /\ lastAction' = NoDownload
              /\ UNCHANGED <<ret, dlInflight, emitsInCall>>
         [] r.type = "Pipeline" ->
              /\ pc' = "out"
              /\ ret' = HandlerEvent_Pipeline(r.target)
              /\ lastAction' = NoDownload
              /\ UNCHANGED <<dlInflight, emitsInCall>>
         [] r.type = "Download" ->
              /\ Len(dlInflight) + Len(dlReady) < MaxDownloads
              /\ emitsInCall' = emitsInCall + 1
              /\ Downloader_on_action(r.req)
              /\ UNCHANGED <<pc, ret>>
    /\ UNCHANGED <<incoming, closed, fused, arrived, dlReady>>
    /\ lastNote' = ""

\* DrainHandler that forwards only the first download request of a poll call
DrainHandler_DownloadDropped(r) ==
    /\ pc = "handler"
    /\ lastEv' = r
    /\ lastIn' = NoInput
    /\ CASE r.type \in {"Idle", "Pending"} ->
              /\ pc' = "incoming"
              /\ lastAction' = NoDownload
              /\ UNCHANGED <<ret, dlInflight, emitsInCall>>
         [] r.type = "Pipeline" ->
              /\ pc' = "out"
              /\ ret' = HandlerEvent_Pipeline(r.target)
              /\ lastAction' = NoDownload
              /\ UNCHANGED <<dlInflight, emitsInCall>>
         [] r.type = "Event" ->
              /\ pc' = "out"
              /\ ret' = HandlerEvent_Event(r.ev)
              /\ lastAction' = NoDownload
              /\ UNCHANGED <<dlInflight, emitsInCall>>
         [] r.type = "Download" ->
              /\ Len(dlInflight) + Len(dlReady) < MaxDownloads
              /\ emitsInCall' = emitsInCall + 1
              /\ IF emitsInCall = 0
                 THEN Downloader_on_action(r.req)
                 ELSE /\ lastAction' = NoDownload
                      /\ UNCHANGED dlInflight
              /\ UNCHANGED <<pc, ret>>
    /\ UNCHANGED <<incoming, closed, fused, arrived, dlReady>>
    /\ lastNote' = ""

\* DrainHandler with the pipeline branch breaking out of the drain like Idle
DrainHandler_PipelineSwallowed(r) ==
    /\ pc = "handler"
    /\ lastEv' = r
    /\ lastIn' = NoInput
    /\ CASE r.type \in {"Idle", "Pending", "Pipeline"} ->
              /\ pc' = "incoming"
              /\ lastAction' = NoDownload
              /\ UNCHANGED <<ret, dlInflight, emitsInCall>>
         [] r.type = "Event" ->
              /\ pc' = "out"
              /\ ret' = HandlerEvent_Event(r.ev)
              /\ lastAction' = NoDownload
              /\ UNCHANGED <<dlInflight, emitsInCall>>
         [] r.type = "Download" ->
              /\ Len(dlInflight) + Len(dlReady) < MaxDownloads
              /\ emitsInCall' = emitsInCall + 1
              /\ Downloader_on_action(r.req)
              /\ UNCHANGED <<pc, ret>>
    /\ UNCHANGED <<incoming, closed, fused, arrived, dlReady>>
    /\ lastNote' = ""

\* one iteration of the inner loop: handler.poll returned r
DrainHandler(r) ==
    /\ pc = "handler"
    /\ lastEv' = r
    /\ lastIn' = NoInput
    /\ CASE r.type \in {"Idle", "Pending"} ->
              /\ pc' = "incoming"
              /\ lastAction' = NoDownload
              /\ UNCHANGED <<ret, dlInflight, emitsInCall>>
         [] r.type = "Pipeline" ->
              /\ pc' = "out"
              /\ ret' = HandlerEvent_Pipeline(r.target)
              /\ lastAction' = NoDownload
              /\ UNCHANGED <<dlInflight, emitsInCall>>
         [] r.type = "Event" ->
              /\ pc' = "out"
              /\ ret' = HandlerEvent_Event(r.ev)
              /\ lastAction' = NoDownload
              /\ UNCHANGED <<dlInflight, emitsInCall>>
         [] r.type = "Download" ->
              /\ Len(dlInflight) + Len(dlReady) < MaxDownloads
              /\ emitsInCall' = emitsInCall + 1
              /\ Downloader_on_action(r.req)
              /\ UNCHANGED <<pc, ret>>
    /\ UNCHANGED <<incoming, closed, fused, arrived, dlReady>>
    /\ lastNote' = ""

\* PollIncoming with the downloader checked before the incoming stream
PollIncoming_DownloaderFirst ==
    /\ pc = "incoming"
    /\ IF dlReady # <<>>
       THEN /\ lastIn' = FromEngine_DownloadedBlocks(Head(dlReady))
            /\ dlReady' = Tail(dlReady)
            /\ pc' = "handler"
            /\ UNCHANGED <<fused, incoming>>
       ELSE IF incoming # <<>> /\ ~fused
       THEN /\ lastIn' = FromEngine_Request(Head(incoming))
            /\ incoming' = Tail(incoming)
            /\ pc' = "handler"
            /\ UNCHANGED <<fused, dlReady>>
       ELSE /\ fused' = (fused \/ closed)
            /\ pc' = "downloader"
            /\ lastIn' = NoInput
            /\ UNCHANGED <<incoming, dlReady>>
    /\ lastAction' = NoDownload
    /\ UNCHANGED <<ret, closed, arrived, dlInflight, lastEv,
                   emitsInCall>>
    /\ lastNote' = ""

\* PollIncoming that reports no progress when the stream has no item
PollIncoming_SkipsDownloader ==
    /\ pc = "incoming"
    /\ IF incoming # <<>> /\ ~fused
       THEN /\ lastIn' = FromEngine_Request(Head(incoming))
            /\ incoming' = Tail(incoming)
            /\ pc' = "handler"
            /\ UNCHANGED <<fused, ret>>
       ELSE /\ fused' = (fused \/ closed)
            /\ pc' = "out"
            /\ ret' = PollPending
            /\ lastIn' = NoInput
            /\ UNCHANGED incoming
    /\ lastAction' = NoDownload
    /\ UNCHANGED <<closed, arrived, dlInflight, dlReady, lastEv,
                   emitsInCall>>
    /\ lastNote' = ""

\* PollIncoming that goes on to the downloader after handing a request over
PollIncoming_FallsThrough ==
    /\ pc = "incoming"
    /\ IF incoming # <<>> /\ ~fused
       THEN /\ lastIn' = FromEngine_Request(Head(incoming))
            /\ incoming' = Tail(incoming)
            /\ pc' = "downloader"
            /\ UNCHANGED fused
       ELSE /\ fused' = (fused \/ closed)
            /\ pc' = "downloader"
            /\ lastIn' = NoInput
            /\ UNCHANGED incoming
    /\ lastAction' = NoDownload
    /\ UNCHANGED <<ret, closed, arrived, dlInflight, dlReady, lastEv,
                   emitsInCall>>
    /\ lastNote' = ""

\* PollIncoming that hands the next request over without consuming it
PollIncoming_Peeks ==
    /\ pc = "incoming"
    /\ IF incoming # <<>> /\ ~fused
       THEN /\ lastIn' = FromEngine_Request(Head(incoming))
            /\ pc' = "handler"
            /\ UNCHANGED <<fused, incoming>>
       ELSE /\ fused' = (fused \/ closed)
            /\ pc' = "downloader"
            /\ lastIn' = NoInput
            /\ UNCHANGED incoming
    /\ lastAction' = NoDownload
    /\ UNCHANGED <<ret, closed, arrived, dlInflight, dlReady, lastEv,
                   emitsInCall>>
    /\ lastNote' = ""

\* pop the next incoming request and delegate it to the handler
PollIncoming ==
    /\ pc = "incoming"
    /\ IF incoming # <<>> /\ ~fused
       THEN /\ lastIn' = FromEngine_Request(Head(incoming))
            /\ incoming' = Tail(incoming)
            /\ pc' = "handler"
            /\ UNCHANGED fused
       ELSE /\ fused' = (fused \/ closed)
            /\ pc' = "downloader"
            /\ lastIn' = NoInput
            /\ UNCHANGED incoming
    /\ lastAction' = NoDownload
    /\ UNCHANGED <<ret, closed, arrived, dlInflight, dlReady, lastEv,
                   emitsInCall>>
    /\ lastNote' = ""

\* the blocks of all the batches of q, one after the other
RECURSIVE Flatten(_)
Flatten(q) == IF q = <<>> THEN <<>> ELSE Head(q) \o Flatten(Tail(q))

\* PollDownloader that restarts the loop when the downloader has nothing
PollDownloader_NeverPending ==
    /\ pc = "downloader"
    /\ IF dlReady # <<>>
       THEN /\ lastIn' = FromEngine_DownloadedBlocks(Head(dlReady))
            /\ dlReady' = Tail(dlReady)
       ELSE /\ lastIn' = NoInput
            /\ UNCHANGED dlReady
    /\ pc' = "handler"
    /\ lastAction' = NoDownload
    /\ UNCHANGED <<ret, incoming, closed, fused, arrived, dlInflight, lastEv,
                   emitsInCall>>
    /\ lastNote' = ""

\* PollDownloader that hands every completed batch over as one delivery
PollDownloader_MergesBatches ==
    /\ pc = "downloader"
    /\ IF dlReady # <<>>
       THEN /\ lastIn' = FromEngine_DownloadedBlocks(Flatten(dlReady))
            /\ dlReady' = <<>>
            /\ pc' = "handler"
            /\ UNCHANGED ret
       ELSE /\ ret' = PollPending
            /\ pc' = "out"
            /\ lastIn' = NoInput
            /\ UNCHANGED dlReady
    /\ lastAction' = NoDownload
    /\ UNCHANGED <<incoming, closed, fused, arrived, dlInflight, lastEv,
                   emitsInCall>>
    /\ lastNote' = ""

\* PollDownloader that reports no progress without advancing the downloader
PollDownloader_NotPolled ==
    /\ pc = "downloader"
    /\ ret' = PollPending
    /\ pc' = "out"
    /\ lastIn' = NoInput
    /\ lastAction' = NoDownload
    /\ UNCHANGED <<incoming, closed, fused, arrived, dlInflight, dlReady, lastEv, emitsInCall>>
    /\ lastNote' = ""

\* advance the downloader and delegate a completed batch to the handler
PollDownloader ==
    /\ pc = "downloader"
    /\ IF dlReady # <<>>
       THEN /\ lastIn' = FromEngine_DownloadedBlocks(Head(dlReady))
            /\ dlReady' = Tail(dlReady)
            /\ pc' = "handler"
            /\ UNCHANGED ret
       ELSE /\ ret' = PollPending
            /\ pc' = "out"
            /\ lastIn' = NoInput
            /\ UNCHANGED dlReady
    /\ lastAction' = NoDownload
    /\ UNCHANGED <<incoming, closed, fused, arrived, dlInflight, lastEv,
                   emitsInCall>>
    /\ lastNote' = ""

\* ------------------------------------------- an arbitrary request handler
\* everything EngineRequestHandler::poll may return
HandlerResults ==
    {RIdle, RPending}
        \cup {RPipeline(t) : t \in Hashes}
        \cup {REvent(e) : e \in OpaqueEvents}
        \cup {RDownload(q) : q \in DownloadRequest}

OpaqueRequests == {[kind |-> "Opaque", id |-> i] : i \in 1..MaxReqs}

\* ------------------------------------------------ EngineApiRequestHandler
\* The bodies of EngineApiRequestHandler::on_event and ::poll are todo!()
\* in engine.rs; the state machine below follows the design of the request
\* handler (fields as declared at engine.rs:143-161).
VARIABLES
    orchestrator_state,  \* "Live" or "PipelineSync"
    pending_payloads,    \* payload requests in progress
    pending_fcu,         \* the active fork-choice update, NoRequest for None
    next_fcu,            \* queued fork-choice updates
    buffered_events,     \* events to yield
    awaiting,            \* pending entries waiting on a download: [ent, req]
    treeOps,             \* tree handler: the submissions it holds: [ent, st, need, target]
    lastSubmit,          \* requests the latest step submitted to the tree handler
    superseded           \* fork-choice updates that were queued when a later one arrived

apiVars == <<orchestrator_state, pending_payloads, pending_fcu, next_fcu,
             buffered_events, awaiting, treeOps, lastSubmit, superseded>>

allVars == <<engineVars, apiVars>>

InitApi ==
    /\ orchestrator_state = "Live"
    /\ pending_payloads = {}
    /\ pending_fcu = NoRequest
    /\ next_fcu = <<>>
    /\ buffered_events = <<>>
    /\ awaiting = {}
    /\ treeOps = {}
    /\ lastSubmit = {}
    /\ superseded = {}

ApiRequests == {NewPayload(i) : i \in 1..MaxReqs} \cup {ForkchoiceUpdated(i) : i \in 1..MaxReqs}

Verdicts == {"Ok", "Err"}

\* ---- the tree-handler capability
TreeOp(e, st, q, t) == [ent |-> e, st |-> st, need |-> q, target |-> t]
Running(e) == TreeOp(e, "running", NoDownload, 0)
TreeRunning == {op.ent : op \in {x \in treeOps : x.st = "running"}}
TreeEntries == {op.ent : op \in treeOps}

\* outcomes polling the tree handler can produce: nothing, or an outcome of
\* one of the submissions it is working on
TreeDone(e, v) == [kind |-> "Done", ent |-> e, verdict |-> v, req |-> NoDownload, target |-> 0]
TreeMissing(e, q) == [kind |-> "Missing", ent |-> e, verdict |-> "", req |-> q, target |-> 0]
TreeBulkSync(e, t) == [kind |-> "BulkSync", ent |-> e, verdict |-> "", req |-> NoDownload, target |-> t]
TreeNothing == [kind |-> "Nothing", ent |-> NoRequest, verdict |-> "", req |-> NoDownload, target |-> 0]

\* the ancestors the tree handler finds missing for an entry, and the target
\* it names when the entry needs bulk sync, depend on the entry alone
NeedOf(e) == IF e.id % 2 = 1 THEN Blocks(<<2, 1>>) ELSE Range(2, 2)
TargetOf(e) == IF e.id % 2 = 1 THEN 1 ELSE 2

TreeOutcomes ==
    {TreeNothing}
        \cup {TreeDone(e, v) : e \in TreeRunning, v \in Verdicts}
        \cup {TreeMissing(e, NeedOf(e)) : e \in TreeRunning}
        \cup {TreeBulkSync(e, TargetOf(e)) : e \in TreeRunning}

\* the tree handler's submissions after it produced outcome o
TreeAfter(ops, o) ==
    CASE o.kind = "Nothing" -> ops
      [] o.kind = "Done" -> {x \in ops : x.ent # o.ent}
      [] o.kind = "Missing" ->
           {x \in ops : x.ent # o.ent} \cup {TreeOp(o.ent, "missing", o.req, 0)}
      [] o.kind = "BulkSync" ->
           {x \in ops : x.ent # o.ent} \cup {TreeOp(o.ent, "sync", NoDownload, o.target)}

\* the tree handler's submissions after the entries of S were (re)submitted
TreeSubmit(ops, S) == {x \in ops : x.ent \notin S} \cup {Running(e) : e \in S}

\* ---- EngineApiRequestHandler
\* the domain event reporting the tree handler's verdict on an entry
DomainEvent(e, v) == [kind |-> v, id |-> e.id, of |-> e.kind]
Syncing(e) == [kind |-> "Syncing", id |-> e.id, of |-> e.kind]

\* a request that arrives while the orchestrator is not Live is answered SYNCING
RejectSyncing(req) ==
    /\ buffered_events' = Append(buffered_events, REvent(Syncing(req)))
    /\ lastSubmit' = {}
    /\ UNCHANGED <<orchestrator_state, pending_payloads, pending_fcu, next_fcu,
                   awaiting, treeOps>>

\* on_event(FromEngine::Event(n))
OnNotification(n) ==
    /\ orchestrator_state' = n
    /\ lastSubmit' = {}
    /\ UNCHANGED <<pending_payloads, pending_fcu, next_fcu, buffered_events,
                   awaiting, treeOps>>

\* OnNewPayload that admits a payload whatever the orchestrator's mode is
OnNewPayload_IgnoresMode(req) ==
    /\ pending_payloads' = pending_payloads \cup {req}
    /\ treeOps' = TreeSubmit(treeOps, {req})
    /\ lastSubmit' = {req}
    /\ UNCHANGED <<orchestrator_state, pending_fcu, next_fcu, buffered_events,
                   awaiting>>

\* OnNewPayload that admits a payload only while no fork-choice update is active
OnNewPayload_WaitsForFcu(req) ==
    IF orchestrator_state # "Live" \/ pending_fcu # NoRequest
    THEN RejectSyncing(req)
    ELSE /\ pending_payloads' = pending_payloads \cup {req}
         /\ treeOps' = TreeSubmit(treeOps, {req})
         /\ lastSubmit' = {req}
         /\ UNCHANGED <<orchestrator_state, pending_fcu, next_fcu, buffered_events,
                        awaiting>>

\* on_event(FromEngine::Request(new payload))
OnNewPayload(req) ==
    IF orchestrator_state # "Live"
    THEN RejectSyncing(req)
    ELSE /\ pending_payloads' = pending_payloads \cup {req}
         /\ treeOps' = TreeSubmit(treeOps, {req})
         /\ lastSubmit' = {req}
         /\ UNCHANGED <<orchestrator_state, pending_fcu, next_fcu, buffered_events,
                        awaiting>>

\* OnForkchoiceUpdated in which a new update takes over from the active one
OnForkchoiceUpdated_Preempts(req) ==
    IF orchestrator_state # "Live"
    THEN RejectSyncing(req)
    ELSE /\ pending_fcu' = req
         /\ treeOps' = TreeSubmit({x \in treeOps : x.ent # pending_fcu}, {req})
         /\ lastSubmit' = {req}
         /\ UNCHANGED <<orchestrator_state, pending_payloads, next_fcu,
                        buffered_events, awaiting>>

\* OnForkchoiceUpdated that submits every update at once
OnForkchoiceUpdated_NotExclusive(req) ==
    IF orchestrator_state # "Live"
    THEN RejectSyncing(req)
    ELSE /\ pending_fcu' = req
         /\ treeOps' = TreeSubmit(treeOps, {req})
         /\ lastSubmit' = {req}
         /\ UNCHANGED <<orchestrator_state, pending_payloads, next_fcu,
                        buffered_events, awaiting>>

\* OnForkchoiceUpdated that appends to the queue instead of replacing it
OnForkchoiceUpdated_Appends(req) ==
    IF orchestrator_state # "Live"
    THEN RejectSyncing(req)
    ELSE IF pending_fcu # NoRequest
    THEN /\ next_fcu' = Append(next_fcu, req)
         /\ lastSubmit' = {}
         /\ UNCHANGED <<orchestrator_state, pending_payloads, pending_fcu,
                        buffered_events, awaiting, treeOps>>
    ELSE /\ pending_fcu' = req
         /\ treeOps' = TreeSubmit(treeOps, {req})
         /\ lastSubmit' = {req}
         /\ UNCHANGED <<orchestrator_state, pending_payloads, next_fcu,
                        buffered_events, awaiting>>

\* on_event(FromEngine::Request(fork-choice update))
OnForkchoiceUpdated(req) ==
    IF orchestrator_state # "Live"
    THEN RejectSyncing(req)
    ELSE IF pending_fcu # NoRequest
    THEN /\ next_fcu' = <<req>>
         /\ lastSubmit' = {}
         /\ UNCHANGED <<orchestrator_state, pending_payloads, pending_fcu,
                        buffered_events, awaiting, treeOps>>
    ELSE /\ pending_fcu' = req
         /\ treeOps' = TreeSubmit(treeOps, {req})
         /\ lastSubmit' = {req}
         /\ UNCHANGED <<orchestrator_state, pending_payloads, next_fcu,
                        buffered_events, awaiting>>

\* the pending entries waiting for exactly the batch b
Resumed(b) == {a.ent : a \in {x \in awaiting : BlocksOf(x.req) = b}}

\* on_event(FromEngine::DownloadedBlocks(b))
OnDownloadedBlocks(b) ==
    /\ awaiting' = {a \in awaiting : a.ent \notin Resumed(b)}
    /\ treeOps' = TreeSubmit(treeOps, Resumed(b))
    /\ lastSubmit' = Resumed(b)
    /\ UNCHANGED <<orchestrator_state, pending_payloads, pending_fcu, next_fcu,
                   buffered_events>>

\* EngineApiRequestHandler::on_event
Api_on_event(event) ==
    CASE event.type = "Event" -> OnNotification(event.note)
      [] event.type = "Request" /\ event.req.kind = "NewPayload" -> OnNewPayload(event.req)
      [] event.type = "Request" /\ event.req.kind = "ForkchoiceUpdated" ->
           OnForkchoiceUpdated(event.req)
      [] event.type = "DownloadedBlocks" -> OnDownloadedBlocks(event.blocks)

\* Translate that always asks for the same blocks
Translate_FixedRequest(o) ==
    CASE o.kind = "Nothing" -> RIdle
      [] o.kind = "Done" -> REvent(DomainEvent(o.ent, o.verdict))
      [] o.kind = "Missing" -> RDownload(Blocks(<<2, 1>>))
      [] o.kind = "BulkSync" -> RPipeline(o.target)

\* translation of a tree-handler outcome into the event poll yields
Translate(o) ==
    CASE o.kind = "Nothing" -> RIdle
      [] o.kind = "Done" -> REvent(DomainEvent(o.ent, o.verdict))
      [] o.kind = "Missing" -> RDownload(o.req)
      [] o.kind = "BulkSync" -> RPipeline(o.target)

\* PromoteNext that promotes the queued update only after an Ok verdict
PromoteNext_OnlyAfterOk(o) ==
    /\ pending_fcu' = IF next_fcu # <<>> /\ o.verdict = "Ok" THEN Head(next_fcu) ELSE NoRequest
    /\ next_fcu' = IF next_fcu # <<>> /\ o.verdict = "Ok" THEN Tail(next_fcu) ELSE next_fcu
    /\ treeOps' = IF next_fcu # <<>> /\ o.verdict = "Ok"
                  THEN TreeSubmit(TreeAfter(treeOps, o), {Head(next_fcu)})
                  ELSE TreeAfter(treeOps, o)
    /\ lastSubmit' = IF next_fcu # <<>> /\ o.verdict = "Ok" THEN {Head(next_fcu)} ELSE {}
    /\ UNCHANGED <<orchestrator_state, pending_payloads, buffered_events, awaiting>>

\* a domain event completed the active fork-choice update: promote the queue
PromoteNext(o) ==
    /\ pending_fcu' = IF next_fcu # <<>> THEN Head(next_fcu) ELSE NoRequest
    /\ next_fcu' = IF next_fcu # <<>> THEN Tail(next_fcu) ELSE next_fcu
    /\ treeOps' = IF next_fcu # <<>>
                  THEN TreeSubmit(TreeAfter(treeOps, o), {Head(next_fcu)})
                  ELSE TreeAfter(treeOps, o)
    /\ lastSubmit' = IF next_fcu # <<>> THEN {Head(next_fcu)} ELSE {}
    /\ UNCHANGED <<orchestrator_state, pending_payloads, buffered_events, awaiting>>

\* a domain event completed a pending payload
CompletePayload(o) ==
    /\ pending_payloads' = pending_payloads \ {o.ent}
    /\ treeOps' = TreeAfter(treeOps, o)
    /\ lastSubmit' = {}
    /\ UNCHANGED <<orchestrator_state, pending_fcu, next_fcu, buffered_events,
                   awaiting>>

\* the tree handler signalled missing ancestors: the entry waits for the download
AwaitDownload(o) ==
    /\ awaiting' = awaiting \cup {[ent |-> o.ent, req |-> o.req]}
    /\ treeOps' = TreeAfter(treeOps, o)
    /\ lastSubmit' = {}
    /\ UNCHANGED <<orchestrator_state, pending_payloads, pending_fcu, next_fcu,
                   buffered_events>>

\* the tree handler signalled that bulk sync is required
Escalate(o) ==
    /\ treeOps' = TreeAfter(treeOps, o)
    /\ lastSubmit' = {}
    /\ UNCHANGED <<orchestrator_state, pending_payloads, pending_fcu, next_fcu,
                   buffered_events, awaiting>>

\* Api_on_outcome that retries the stalled entries whenever the tree handler
\* has no output
Api_on_outcome_RetriesStalled(o) ==
    CASE o.kind = "Nothing" ->
           /\ lastSubmit' = {a.ent : a \in awaiting}
           /\ treeOps' = TreeSubmit(treeOps, {a.ent : a \in awaiting})
           /\ awaiting' = {}
           /\ UNCHANGED <<orchestrator_state, pending_payloads, pending_fcu, next_fcu,
                          buffered_events>>
      [] o.kind = "Done" /\ o.ent = pending_fcu -> PromoteNext(o)
      [] o.kind = "Done" /\ o.ent # pending_fcu -> CompletePayload(o)
      [] o.kind = "Missing" -> AwaitDownload(o)
      [] o.kind = "BulkSync" -> Escalate(o)

\* the pending state after the tree handler reported outcome o
Api_on_outcome(o) ==
    CASE o.kind = "Nothing" ->
           /\ lastSubmit' = {}
           /\ UNCHANGED <<orchestrator_state, pending_payloads, pending_fcu, next_fcu,
                          buffered_events, awaiting, treeOps>>
      [] o.kind = "Done" /\ o.ent = pending_fcu -> PromoteNext(o)
      [] o.kind = "Done" /\ o.ent # pending_fcu -> CompletePayload(o)
      [] o.kind = "Missing" -> AwaitDownload(o)
      [] o.kind = "BulkSync" -> Escalate(o)

\* EngineApiRequestHandler::poll: buffered events first, then the tree handler
Api_poll(r) ==
    IF buffered_events # <<>>
    THEN /\ r = Head(buffered_events)
         /\ buffered_events' = Tail(buffered_events)
         /\ lastSubmit' = {}
    /\ UNCHANGED <<orchestrator_state, pending_payloads, pending_fcu, next_fcu,
                        awaiting, treeOps>>
    ELSE \E o \in TreeOutcomes :
            /\ r = Translate(o)
            /\ Api_on_outcome(o)

\* every event EngineApiRequestHandler::poll can yield
ApiResults ==
    {RIdle}
        \cup {RPipeline(t) : t \in Hashes}
        \cup {RDownload(q) : q \in DownloadRequest}
        \cup {REvent(DomainEvent(e, v)) : e \in ApiRequests, v \in Verdicts}
        \cup {REvent(Syncing(e)) : e \in ApiRequests}

\* a step in which the request handler is not called
ApiUntouched ==
    /\ lastSubmit' = {}
    /\ UNCHANGED <<orchestrator_state, pending_payloads, pending_fcu, next_fcu,
                   buffered_events, awaiting, treeOps, superseded>>

\* the fork-choice updates a newly delivered request pushes out of the queue
Supersedes(event) ==
    IF /\ event.type = "Request"
       /\ event.req.kind = "ForkchoiceUpdated"
       /\ orchestrator_state = "Live"
       /\ pending_fcu # NoRequest
    THEN {next_fcu[k] : k \in 1..Len(next_fcu)}
    ELSE {}

\* ------------------------------------------------------ ComponentsBuilder
\* crates/node/builder/src/components/builder.rs
VARIABLES
    cb,          \* the ComponentsBuilder: the component builder held in each field, 0 for ()
    bpc,         \* position of build_components: "config" before the call, "returned" after it
    invoked,     \* fields whose component builder has been invoked, in order
    components,  \* the components built so far
    result,      \* the Result build_components returned
    lastCall     \* the builder method called in the latest configuration step, with its argument

buildVars == <<cb, bpc, invoked, components, result, lastCall>>

\* the component builders a field can be configured with
ComponentBuilders == {1, 2}

\* a component: the builder that built it and the pool that builder was given
NoComponent == [by |-> 0, pool |-> 0]
Built(b, p) == [by |-> b, pool |-> p]

\* the closures f: B -> B the map_ methods accept; a field of type () maps to ()
MapFns == [ComponentBuilders -> ComponentBuilders]
IdFn == [x \in ComponentBuilders |-> x]
Apply(f, x) == IF x = 0 THEN 0 ELSE f[x]

\* a call of a builder method: its name, the builder given, the closure given
NoCall == [fn |-> "", given |-> 0, f |-> IdFn]
SetCall(name, b) == [fn |-> name, given |-> b, f |-> IdFn]
MapCall(name, f) == [fn |-> name, given |-> 0, f |-> f]

NoResult == [type |-> "None", err |-> ""]
Ok == [type |-> "Ok", err |-> ""]
Err(f) == [type |-> "Err", err |-> f]

\* Default for ComponentsBuilder<(), (), (), (), (), (), ()>
InitBuilder ==
    /\ cb = [pool_builder |-> 0, payload_builder |-> 0, network_builder |-> 0,
             executor_builder |-> 0, consensus_builder |-> 0,
             engine_validator_builder |-> 0]
    /\ bpc = "config"
    /\ invoked = <<>>
    /\ components = [transaction_pool |-> NoComponent, evm_config |-> NoComponent,
                     executor |-> NoComponent, network |-> NoComponent,
                     payload_builder |-> NoComponent, consensus |-> NoComponent,
                     engine_validator |-> NoComponent]
    /\ result = NoResult
    /\ lastCall = NoCall

\* a setter of the builder: field f is replaced by the component builder b
Configure(f, b) ==
    /\ bpc = "config"
    /\ cb' = [cb EXCEPT ![f] = b]
    /\ UNCHANGED <<bpc, invoked, components, result>>

\* ComponentsBuilder::node_types: every field is moved over as it is
node_types ==
    /\ bpc = "config"
    /\ cb' = [pool_builder |-> cb.pool_builder,
              payload_builder |-> cb.payload_builder,
              network_builder |-> cb.network_builder,
              executor_builder |-> cb.executor_builder,
              consensus_builder |-> cb.consensus_builder,
              engine_validator_builder |-> cb.engine_validator_builder]
    /\ lastCall' = SetCall("node_types", 0)
    /\ UNCHANGED <<bpc, invoked, components, result>>

\* ComponentsBuilder::map_pool, map_payload, map_network, map_executor,
\* map_consensus: f is applied to the field, the others are moved over
map_pool(f) ==
    /\ Configure("pool_builder", Apply(f, cb.pool_builder))
    /\ lastCall' = MapCall("map_pool", f)

map_payload(f) ==
    /\ Configure("payload_builder", Apply(f, cb.payload_builder))
    /\ lastCall' = MapCall("map_payload", f)

map_network(f) ==
    /\ Configure("network_builder", Apply(f, cb.network_builder))
    /\ lastCall' = MapCall("map_network", f)

map_executor(f) ==
    /\ Configure("executor_builder", Apply(f, cb.executor_builder))
    /\ lastCall' = MapCall("map_executor", f)

map_consensus(f) ==
    /\ Configure("consensus_builder", Apply(f, cb.consensus_builder))
    /\ lastCall' = MapCall("map_consensus", f)

\* ComponentsBuilder::pool
pool(b) ==
    /\ Configure("pool_builder", b)
    /\ lastCall' = SetCall("pool", b)

\* network that stores the given builder in the payload builder's field
network_WrongField(b) ==
    /\ cb.pool_builder # 0
    /\ Configure("payload_builder", b)
    /\ lastCall' = SetCall("network", b)

\* the setters of the impl block bounded by PoolB: PoolBuilder<Node>
network(b) ==
    /\ cb.pool_builder # 0
    /\ Configure("network_builder", b)
    /\ lastCall' = SetCall("network", b)

payload(b) ==
    /\ cb.pool_builder # 0
    /\ Configure("payload_builder", b)
    /\ lastCall' = SetCall("payload", b)

executor(b) ==
    /\ cb.pool_builder # 0
    /\ Configure("executor_builder", b)
    /\ lastCall' = SetCall("executor", b)

consensus(b) ==
    /\ cb.pool_builder # 0
    /\ Configure("consensus_builder", b)
    /\ lastCall' = SetCall("consensus", b)

engine_validator(b) ==
    /\ cb.pool_builder # 0
    /\ Configure("engine_validator_builder", b)
    /\ lastCall' = SetCall("engine_validator", b)

\* ---- NodeComponentsBuilder::build_components for ComponentsBuilder
\* the call: every field holds a builder of its kind (the impl's bounds)
build_components ==
    /\ bpc = "config"
    /\ \A f \in DOMAIN cb : cb[f] # 0
    /\ bpc' = "evm"
    /\ lastCall' = NoCall
    /\ UNCHANGED <<cb, invoked, components, result>>

\* `?` on a failed builder: build_components returns its error
ReturnErr(f) ==
    /\ result' = Err(f)
    /\ bpc' = "returned"
    /\ UNCHANGED components

\* evm_builder.build_evm(context).await?
build_evm(ok) ==
    /\ bpc = "evm"
    /\ invoked' = Append(invoked, "executor_builder")
    /\ IF ok
       THEN /\ components' = [components EXCEPT
                                !.evm_config = Built(cb.executor_builder, 0),
                                !.executor = Built(cb.executor_builder, 0)]
            /\ bpc' = "pool"
            /\ UNCHANGED result
       ELSE ReturnErr("executor_builder")
    /\ UNCHANGED cb
    /\ UNCHANGED lastCall

\* build_pool that carries on after the pool builder failed
build_pool_ErrorIgnored(ok) ==
    /\ bpc = "pool"
    /\ invoked' = Append(invoked, "pool_builder")
    /\ IF ok
       THEN components' = [components EXCEPT
                                !.transaction_pool = Built(cb.pool_builder, 0)]
       ELSE UNCHANGED components
    /\ bpc' = "network"
    /\ UNCHANGED <<cb, result>>
    /\ UNCHANGED lastCall

\* pool_builder.build_pool(context).await?
build_pool(ok) ==
    /\ bpc = "pool"
    /\ invoked' = Append(invoked, "pool_builder")
    /\ IF ok
       THEN /\ components' = [components EXCEPT
                                !.transaction_pool = Built(cb.pool_builder, 0)]
            /\ bpc' = "network"
            /\ UNCHANGED result
       ELSE ReturnErr("pool_builder")
    /\ UNCHANGED cb
    /\ UNCHANGED lastCall

\* network_builder.build_network(context, pool.clone()).await?
build_network(ok) ==
    /\ bpc = "network"
    /\ invoked' = Append(invoked, "network_builder")
    /\ IF ok
       THEN /\ components' = [components EXCEPT
                                !.network = Built(cb.network_builder,
                                                  components.transaction_pool.by)]
            /\ bpc' = "payload"
            /\ UNCHANGED result
       ELSE ReturnErr("network_builder")
    /\ UNCHANGED cb
    /\ UNCHANGED lastCall

\* payload_builder.spawn_payload_service(context, pool.clone()).await?
spawn_payload_service(ok) ==
    /\ bpc = "payload"
    /\ invoked' = Append(invoked, "payload_builder")
    /\ IF ok
       THEN /\ components' = [components EXCEPT
                                !.payload_builder = Built(cb.payload_builder,
                                                          components.transaction_pool.by)]
            /\ bpc' = "consensus"
            /\ UNCHANGED result
       ELSE ReturnErr("payload_builder")
    /\ UNCHANGED cb
    /\ UNCHANGED lastCall

\* consensus_builder.build_consensus(context).await?
build_consensus(ok) ==
    /\ bpc = "consensus"
    /\ invoked' = Append(invoked, "consensus_builder")
    /\ IF ok
       THEN /\ components' = [components EXCEPT
                                !.consensus = Built(cb.consensus_builder, 0)]
            /\ bpc' = "validator"
            /\ UNCHANGED result
       ELSE ReturnErr("consensus_builder")
    /\ UNCHANGED cb
    /\ UNCHANGED lastCall

\* engine_validator_builder.build_validator(context).await?
build_validator(ok) ==
    /\ bpc = "validator"
    /\ invoked' = Append(invoked, "engine_validator_builder")
    /\ IF ok
       THEN /\ components' = [components EXCEPT
                                !.engine_validator = Built(cb.engine_validator_builder, 0)]
            /\ bpc' = "components"
            /\ UNCHANGED result
       ELSE ReturnErr("engine_validator_builder")
    /\ UNCHANGED cb
    /\ UNCHANGED lastCall

\* Ok(Components { .. })
ReturnComponents ==
    /\ bpc = "components"
    /\ result' = Ok
    /\ bpc' = "returned"
    /\ UNCHANGED <<cb, invoked, components>>
    /\ UNCHANGED lastCall

\* ------------------------------------------------------- specifications
\* EngineHandler<T, D> with an arbitrary handler T
Init == InitEngine /\ InitApi /\ InitBuilder

Next ==
    \/ \E r \in OpaqueRequests : Arrive(r) /\ UNCHANGED <<apiVars, buildVars>>
    \/ CloseStream /\ UNCHANGED <<apiVars, buildVars>>
    \/ \E i \in 1..MaxDownloads : DownloadComplete(i) /\ UNCHANGED <<apiVars, buildVars>>
    \/ \E n \in Notifications : EngineHandler_on_event(n) /\ UNCHANGED <<apiVars, buildVars>>
    \/ PollStart /\ UNCHANGED <<apiVars, buildVars>>
    \/ \E r \in HandlerResults : DrainHandler(r) /\ UNCHANGED <<apiVars, buildVars>>
    \/ PollIncoming /\ UNCHANGED <<apiVars, buildVars>>
    \/ PollDownloader /\ UNCHANGED <<apiVars, buildVars>>

Spec == Init /\ [][Next]_allVars

\* a step of a poll call in progress
PollStep ==
    \/ \E r \in HandlerResults : DrainHandler(r) /\ UNCHANGED <<apiVars, buildVars>>
    \/ PollIncoming /\ UNCHANGED <<apiVars, buildVars>>
    \/ PollDownloader /\ UNCHANGED <<apiVars, buildVars>>

\* a poll call that was started keeps running until it returns
SpecFair == Spec /\ WF_allVars(PollStep)

\* EngineHandler<EngineApiRequestHandler<T>, D>
ApiNotify(n) ==
    /\ EngineHandler_on_event(n)
    /\ Api_on_event(FromEngine_Event(n))
    /\ UNCHANGED superseded

ApiDrain(r) ==
    /\ DrainHandler(r)
    /\ Api_poll(r)
    /\ UNCHANGED superseded

ApiPollIncoming ==
    /\ PollIncoming
    /\ IF incoming # <<>> /\ ~fused
       THEN /\ Api_on_event(FromEngine_Request(Head(incoming)))
            /\ superseded' = superseded \cup Supersedes(FromEngine_Request(Head(incoming)))
       ELSE ApiUntouched

ApiPollDownloader ==
    /\ PollDownloader
    /\ IF dlReady # <<>>
       THEN /\ Api_on_event(FromEngine_DownloadedBlocks(Head(dlReady)))
            /\ UNCHANGED superseded
       ELSE ApiUntouched

NextApi ==
    \/ \E r \in ApiRequests : Arrive(r) /\ ApiUntouched /\ UNCHANGED buildVars
    \/ \E i \in 1..MaxDownloads : DownloadComplete(i) /\ ApiUntouched /\ UNCHANGED buildVars
    \/ \E n \in Notifications : ApiNotify(n) /\ UNCHANGED buildVars
    \/ PollStart /\ ApiUntouched /\ UNCHANGED buildVars
    \/ \E r \in ApiResults : ApiDrain(r) /\ UNCHANGED buildVars
    \/ ApiPollIncoming /\ UNCHANGED buildVars
    \/ ApiPollDownloader /\ UNCHANGED buildVars

SpecApi == Init /\ [][NextApi]_allVars

\* ComponentsBuilder: configuration by the setters, then build_components
NextBuild ==
    \/ node_types /\ UNCHANGED allVars
    \/ \E f \in MapFns : map_pool(f) /\ UNCHANGED allVars
    \/ \E f \in MapFns : map_payload(f) /\ UNCHANGED allVars
    \/ \E f \in MapFns : map_network(f) /\ UNCHANGED allVars
    \/ \E f \in MapFns : map_executor(f) /\ UNCHANGED allVars
    \/ \E f \in MapFns : map_consensus(f) /\ UNCHANGED allVars
    \/ \E b \in ComponentBuilders : pool(b) /\ UNCHANGED allVars
    \/ \E b \in ComponentBuilders : network(b) /\ UNCHANGED allVars
    \/ \E b \in ComponentBuilders : payload(b) /\ UNCHANGED allVars
    \/ \E b \in ComponentBuilders : executor(b) /\ UNCHANGED allVars
    \/ \E b \in ComponentBuilders : consensus(b) /\ UNCHANGED allVars
    \/ \E b \in ComponentBuilders : engine_validator(b) /\ UNCHANGED allVars
    \/ build_components /\ UNCHANGED allVars
    \/ \E ok \in BOOLEAN : build_evm(ok) /\ UNCHANGED allVars
    \/ \E ok \in BOOLEAN : build_pool(ok) /\ UNCHANGED allVars
    \/ \E ok \in BOOLEAN : build_network(ok) /\ UNCHANGED allVars
    \/ \E ok \in BOOLEAN : spawn_payload_service(ok) /\ UNCHANGED allVars
    \/ \E ok \in BOOLEAN : build_consensus(ok) /\ UNCHANGED allVars
    \/ \E ok \in BOOLEAN : build_validator(ok) /\ UNCHANGED allVars
    \/ ReturnComponents /\ UNCHANGED allVars

SpecBuild == Init /\ [][NextBuild]_<<allVars, buildVars>>

\* ------------------------------------------------------------ properties
\* C1: when the handler has reported Idle or Pending and both an external
\* request and a completed batch are available, the next input handed to the
\* handler is the external request; a batch is handed to the handler only in
\* a step in which the incoming stream has no request.
C1_RequestBeforeBatch ==
    [][ /\ (lastIn'.type = "DownloadedBlocks") => (incoming = <<>>)
        /\ (/\ pc = "incoming"
            /\ lastEv.type \in {"Idle", "Pending"}
            /\ incoming # <<>>
            /\ dlReady # <<>>)
              => (/\ lastIn' = FromEngine_Request(Head(incoming))
                  /\ dlReady' = dlReady) ]_allVars

\* a request was just taken although a completed batch was ready
C1_Witness ==
    /\ lastIn.type = "Request"
    /\ lastEv.type = "Idle"
    /\ dlReady # <<>>

\* C2: a bubbled result of handler.poll (Pipeline or Event) is returned by
\* the same poll call unchanged, and that step takes nothing from the
\* incoming stream or the downloader and hands nothing to the handler.
C2_BubbledReturnedAtOnce ==
    [][ (pc = "handler" /\ lastEv'.type \in {"Pipeline", "Event"})
          => (/\ pc' = "out"
              /\ ret'.type = lastEv'.type
              /\ ret'.target = lastEv'.target
              /\ ret'.ev = lastEv'.ev
              /\ lastIn' = NoInput
              /\ lastAction' = NoDownload
              /\ incoming' = incoming
              /\ dlReady' = dlReady
              /\ dlInflight' = dlInflight) ]_allVars

\* an event was bubbled while a request and a batch were waiting
C2_Witness ==
    /\ ret.type = "Event"
    /\ incoming # <<>>
    /\ dlReady # <<>>

\* C3: each download request handler.poll returns is handed to the
\* downloader exactly once, in the step that obtained it, before the handler
\* is polled again and before any input is delivered; the downloader receives
\* no other action.
C3_DownloadForwardedOnce ==
    [][ /\ (pc = "handler" /\ lastEv'.type = "Download")
            => (/\ lastAction' = lastEv'.req
                /\ dlInflight' = Append(dlInflight, lastEv'.req)
                /\ lastIn' = NoInput
                /\ pc' = "handler"
                /\ ret' = NoRet
                /\ emitsInCall' = emitsInCall + 1)
        /\ (lastAction' # NoDownload \/ Len(dlInflight') > Len(dlInflight))
            => (pc = "handler" /\ lastEv'.type = "Download") ]_allVars

\* a poll call that forwarded two download requests ended with a bubbled event
C3_Witness ==
    /\ ret.type = "Event"
    /\ emitsInCall >= 2
    /\ Len(dlInflight) >= 2

\* C4: poll returns Pending only when, in its final iteration, the handler
\* reported Idle or Pending, the incoming stream had no item and the
\* downloader had no completed batch.
C4_PendingOnlyWhenNothingReady ==
    (ret = PollPending)
        => (/\ pc = "out"
            /\ lastEv.type \in {"Idle", "Pending"}
            /\ incoming = <<>>
            /\ dlReady = <<>>)

\* Pending was returned after requests and a batch had been consumed
C4_Witness ==
    /\ ret = PollPending
    /\ arrived >= 1
    /\ incoming = <<>>
    /\ dlInflight # <<>>

\* ---- properties of EngineApiRequestHandler (SpecApi)
IsPending(e) == e \in pending_payloads \/ e = pending_fcu
IsPendingNext(e) == e \in pending_payloads' \/ e = pending_fcu'
TreeFcus == {op \in treeOps : op.ent.kind = "ForkchoiceUpdated"}
QueuedFcus == {next_fcu[k] : k \in 1..Len(next_fcu)}

NothingReady ==
    /\ incoming = <<>>
    /\ dlReady = <<>>
    /\ buffered_events = <<>>
    /\ TreeRunning = {}

C13_NotifyUnbuffered ==
    [][ /\ (lastNote' # "") => (lastIn' = FromEngine_Event(lastNote'))
        /\ (lastIn'.type = "Event")
              => (/\ lastNote' = lastIn'.note
                  /\ pc = "out"
                  /\ pc' = "out"
                  /\ incoming' = incoming
                  /\ closed' = closed
                  /\ fused' = fused
                  /\ dlInflight' = dlInflight
                  /\ dlReady' = dlReady
                  /\ lastAction' = NoDownload) ]_allVars

\* a notification was delivered while a request and a batch were waiting
C13_Witness ==
    /\ lastNote = "PipelineSync"
    /\ lastIn = FromEngine_Event("PipelineSync")
    /\ incoming # <<>>
    /\ dlReady # <<>>
    /\ dlInflight # <<>>

\* the number of stream items already handed to the handler
Delivered == arrived - Len(incoming)

\* C14: the k-th item of the incoming stream is handed to the handler as
\* the k-th FromEngine::Request: a delivery hands over the oldest waiting
\* item and consumes exactly it, and the waiting items change in no other
\* way than by a delivery or by a new item arriving at the end.
C14_RequestsOnceInOrder ==
    [][ /\ (lastIn'.type = "Request")
              => (/\ incoming # <<>>
                  /\ lastIn'.req = Head(incoming)
                  /\ lastIn'.req.id = Delivered + 1
                  /\ incoming' = Tail(incoming)
                  /\ arrived' = arrived)
        /\ (lastIn'.type # "Request")
              => (\/ incoming' = incoming /\ arrived' = arrived
                  \/ /\ arrived' = arrived + 1
                     /\ Len(incoming') = Len(incoming) + 1
                     /\ incoming'[Len(incoming')].id = arrived'
                     /\ \A k \in 1..Len(incoming) : incoming'[k] = incoming[k]) ]_allVars

\* the second item was handed over while the third was waiting
C14_Witness ==
    /\ pc = "handler"
    /\ lastIn.type = "Request"
    /\ lastIn.req.id = 2
    /\ Len(incoming) = 1
    /\ incoming[1].id = 3

\* C15: a delivery of downloaded blocks hands over the oldest completed
\* batch, whole and with its blocks in the downloader's order, and consumes
\* exactly that batch; the completed batches change in no other way than by
\* a delivery or by a newly completed batch joining at the end.
C15_BatchesKeepOrderAndIdentity ==
    [][ /\ (lastIn'.type = "DownloadedBlocks")
              => (/\ dlReady # <<>>
                  /\ lastIn'.blocks = Head(dlReady)
                  /\ dlReady' = Tail(dlReady)
                  /\ dlInflight' = dlInflight)
        /\ (lastIn'.type # "DownloadedBlocks")
              => (\/ dlReady' = dlReady
                  \/ /\ pc = "out"
                     /\ Len(dlReady') = Len(dlReady) + 1
                     /\ Len(dlInflight') = Len(dlInflight) - 1
                     /\ \A k \in 1..Len(dlReady) : dlReady'[k] = dlReady[k]) ]_allVars

\* the older of two different completed batches was handed over, the other waits
C15_Witness ==
    /\ lastIn.type = "DownloadedBlocks"
    /\ lastIn.blocks = <<2, 1>>
    /\ dlReady = <<(<<2, 3>>)>>

\* the exclusive access a fork-choice update needs is taken: an earlier
\* fork-choice update is active
ExclusiveAccessHeld == pending_fcu # NoRequest

Standalone == {"executor_builder", "pool_builder", "consensus_builder",
               "engine_validator_builder"}
Services == {"network_builder", "payload_builder"}

InvokedBefore(k) == {invoked[j] : j \in 1..(k - 1)}

\* the builder of field f has produced its component
FieldBuilt(f) ==
    CASE f = "executor_builder" ->
           components.evm_config # NoComponent /\ components.executor # NoComponent
      [] f = "pool_builder" -> components.transaction_pool # NoComponent
      [] f = "network_builder" -> components.network # NoComponent
      [] f = "payload_builder" -> components.payload_builder # NoComponent
      [] f = "consensus_builder" -> components.consensus # NoComponent
      [] f = "engine_validator_builder" -> components.engine_validator # NoComponent

\* C17: no service component (network, payload builder service) is spawned
\* before every standalone component (EVM/executor, pool, consensus, engine
\* validator) has been built.
C17_StandaloneBeforeServices ==
    \A k \in 1..Len(invoked) :
        (invoked[k] \in Services)
            => (/\ Standalone \subseteq InvokedBefore(k)
                /\ \A f \in Standalone : FieldBuilt(f))

\* the order in which build_components invokes the component builders
BuildOrder == <<"executor_builder", "pool_builder", "network_builder",
                "payload_builder", "consensus_builder", "engine_validator_builder">>

Inputs == {"Request", "DownloadedBlocks"}

\* C18: the step that hands an input to the handler restarts the drain, and
\* the step after it polls the handler: it hands over no further input and
\* polls neither the incoming stream nor the downloader.
C18_OneInputPerDrain ==
    [][ /\ (lastIn'.type \in Inputs) => (pc' = "handler")
        /\ (lastIn.type \in Inputs)
              => (/\ pc = "handler"
                  /\ lastEv'.type # "None"
                  /\ lastIn' = NoInput
                  /\ incoming' = incoming
                  /\ fused' = fused
                  /\ dlReady' = dlReady) ]_allVars

\* the first request was handed over; another request and a batch are left
\* for after the next handler poll
C18_Witness ==
    /\ pc = "handler"
    /\ lastIn.type = "Request"
    /\ lastIn.req.id = 1
    /\ incoming # <<>>
    /\ dlReady # <<>>

\* C19: every poll call returns.  No request arrives and no download
\* completes while a call runs, and the downloader holds at most
\* MaxDownloads requests, so the handler emits finitely many download
\* requests per call.
C19_PollReturns == (pc # "out") ~> (pc = "out")

\* a poll call returned Pending after taking requests and forwarding
\* download requests
C19_Witness ==
    /\ pc = "out"
    /\ ret = PollPending
    /\ emitsInCall >= 2
    /\ arrived >= 2
    /\ incoming = <<>>

\* ---- the builder methods of ComponentsBuilder (SpecBuild)
Setters == {"pool", "payload", "network", "executor", "consensus", "engine_validator"}
Mappers == {"map_pool", "map_payload", "map_network", "map_executor", "map_consensus"}

\* the field a builder method names
SlotOf(fn) ==
    CASE fn \in {"pool", "map_pool"} -> "pool_builder"
      [] fn \in {"payload", "map_payload"} -> "payload_builder"
      [] fn \in {"network", "map_network"} -> "network_builder"
      [] fn \in {"executor", "map_executor"} -> "executor_builder"
      [] fn \in {"consensus", "map_consensus"} -> "consensus_builder"
      [] fn = "engine_validator" -> "engine_validator_builder"

OthersKept(f) == \A g \in DOMAIN cb : (g # f) => (cb'[g] = cb[g])

C23_NotificationOvertakesRequests ==
    [][ /\ (lastNote' # "" /\ incoming # <<>>)
              => (/\ lastIn' = FromEngine_Event(lastNote')
                  /\ incoming' = incoming
                  /\ Delivered' = Delivered)
        /\ (lastIn'.type = "Request") => (pc = "incoming" /\ lastNote' = "") ]_allVars

\* the handler's first event is a notification although two requests had
\* arrived before it was issued
C23_Witness ==
    /\ lastIn = FromEngine_Event("PipelineSync")
    /\ Delivered = 0
    /\ Len(incoming) = 2
    /\ ~closed

\* advance is called again and again
PolledRepeatedly == []<>(pc # "out")

\* from some point on the stream has no item when poll checks it
StreamQuiet == <>[](pc = "incoming" => incoming = <<>>)

\* from some point on the handler bubbles nothing
HandlerQuiet == <>[](lastEv.type \notin {"Pipeline", "Event"})

\* C24: a completed batch is handed over only by a poll call in which the
\* handler reported Idle or Pending and the stream had no item, so a call
\* that bubbles, or that finds a request at every check, hands no batch
\* over; and when poll is called again and again, the stream ends up quiet
\* and the handler ends up bubbling nothing, every completed batch is
\* eventually handed over.
C24_BatchDeliveryConditional ==
    /\ [][ (lastIn'.type = "DownloadedBlocks")
              => (/\ pc = "downloader"
                  /\ lastEv.type \in {"Idle", "Pending"}
                  /\ incoming = <<>>
                  /\ ret' = NoRet) ]_allVars
    /\ [][ (ret'.type \in {"Pipeline", "Event"}) => (dlReady' = dlReady) ]_allVars
    /\ (PolledRepeatedly /\ StreamQuiet /\ HandlerQuiet)
          => ((dlReady # <<>>) ~> (dlReady = <<>>))

\* a batch is still waiting after poll took three requests and bubbled an
\* event
C24_Witness ==
    /\ pc = "out"
    /\ ret.type = "Event"
    /\ dlReady # <<>>
    /\ Delivered = 3

====
